---- MODULE Spec2Model ----
(***************************************************************************)
(* Model of the six batch scripts under src/proyecto_prueba/scripts:       *)
(* massive_prefetch, massive_fasterqdump, massive_fastp, massive_fastqc,   *)
(* massive_bowtie and massive_hisat2.  One behaviour is one run of one     *)
(* script: main() discovers the work, the *_concurrently dispatcher        *)
(* submits one task per item to a ThreadPoolExecutor, the worker threads   *)
(* run the per-item function (which starts external processes and waits    *)
(* for them), and the dispatcher collects the results with as_completed.   *)
(*                                                                         *)
(* Strings are sequences of character codes, so that os.path.join,         *)
(* str.endswith, sorted, splitlines and strip are computed as Python       *)
(* computes them.  The environment decides: the directory listing, which   *)
(* binaries can be spawned, each process's exit status, the text bowtie    *)
(* writes to stdout, whether an os.remove succeeds, and whether an earlier *)
(* run left a log in a dataset directory.  Opening a file for writing in a *)
(* dataset directory is taken to succeed.                                  *)
(***************************************************************************)
EXTENDS Integers, Sequences, FiniteSets, TLC

\* ------------------------------------------------------------------ bounds
MaxWorkers == 2
MaxIds == 3
MaxLen == 5
MaxThreads == 4

\* ----------------------------------------------------------------- strings
RECURSIVE LexLess(_, _)
\* Python's str.__lt__: code-point lexicographic order
LexLess(a, b) ==
    IF b = <<>> THEN FALSE
    ELSE IF a = <<>> THEN TRUE
    ELSE IF a[1] # b[1] THEN a[1] < b[1]
    ELSE LexLess(Tail(a), Tail(b))

RECURSIVE Insert(_, _)
Insert(x, s) ==
    IF s = <<>> THEN <<x>>
    ELSE IF LexLess(x, s[1]) THEN <<x>> \o s
    ELSE <<s[1]>> \o Insert(x, Tail(s))

\* sorted() left out: the list in listing order
unsorted(s) == s

RECURSIVE sorted(_)
\* Python's sorted() on a list of str (stable, ascending)
sorted(s) ==
    IF s = <<>> THEN <<>>
    ELSE Insert(s[Len(s)], sorted(SubSeq(s, 1, Len(s) - 1)))

\* str.endswith
endswith(s, suf) ==
    /\ Len(s) >= Len(suf)
    /\ SubSeq(s, Len(s) - Len(suf) + 1, Len(s)) = suf

\* str.startswith
startswith(s, pre) ==
    /\ Len(s) >= Len(pre)
    /\ SubSeq(s, 1, Len(pre)) = pre

\* os.path.join(a, b) on POSIX
join(a, b) ==
    IF b # <<>> /\ b[1] = 47 THEN b
    ELSE IF a = <<>> \/ a[Len(a)] = 47 THEN a \o b
    ELSE a \o <<47>> \o b

\* position of the last "/" of p, 0 if none
LastSlash(p) ==
    LET S == {i \in 1..Len(p) : p[i] = 47}
    IN IF S = {} THEN 0 ELSE CHOOSE i \in S : \A j \in S : j <= i

\* os.path.basename
basename(p) == SubSeq(p, LastSlash(p) + 1, Len(p))

\* str.isspace on one character: space, \t, \n, \v, \f, \r
IsSpace(c) == c \in {32, 9, 10, 11, 12, 13}

RECURSIVE lstrip(_)
lstrip(s) == IF s # <<>> /\ IsSpace(s[1]) THEN lstrip(Tail(s)) ELSE s

RECURSIVE rstrip(_)
rstrip(s) ==
    IF s # <<>> /\ IsSpace(s[Len(s)]) THEN rstrip(SubSeq(s, 1, Len(s) - 1)) ELSE s

\* str.strip
strip(s) == rstrip(lstrip(s))

\* position of the first line break of t, 0 if none (text mode has already
\* turned \r\n and \r into \n)
FirstBreak(t) ==
    LET S == {i \in 1..Len(t) : t[i] \in {10, 11, 12}}
    IN IF S = {} THEN 0 ELSE CHOOSE i \in S : \A j \in S : i <= j

RECURSIVE splitlines(_)
\* str.splitlines: no empty last line after a final line break
splitlines(t) ==
    IF t = <<>> THEN <<>>
    ELSE LET i == FirstBreak(t)
         IN IF i = 0 THEN <<t>>
            ELSE <<SubSeq(t, 1, i - 1)>> \o splitlines(SubSeq(t, i + 1, Len(t)))

\* ------------------------------------------------- massive_bowtie.py: 7-13
RECURSIVE header_blind_loop(_)
\* the loop with the header test left out: any non-blank line is a record
header_blind_loop(lines) ==
    IF lines = <<>> THEN TRUE
    ELSE IF strip(lines[1]) # <<>> THEN FALSE
    ELSE header_blind_loop(Tail(lines))

RECURSIVE empty_loop(_)
\* for line in ...: return False on a line starting with "@", return False
\* on a line with a non-blank character; return True after the loop
empty_loop(lines) ==
    IF lines = <<>> THEN TRUE
    ELSE IF startswith(lines[1], <<64>>) THEN FALSE
    ELSE IF strip(lines[1]) # <<>> THEN FALSE
    ELSE empty_loop(Tail(lines))

is_bowtie_output_empty(bowtie_stdout) == empty_loop(splitlines(bowtie_stdout))

\* ------------------------------------------------------------- the scripts
Stages == {"prefetch", "fasterqdump", "fastp", "fastqc", "bowtie", "hisat2"}

\* stages whose unit of work is a dataset directory
DirStages == {"fastp", "bowtie", "hisat2"}

\* ".fastq", "_clean.fastq", ".sra"
SuffixFastq == <<46, 102, 97, 115, 116, 113>>
SuffixClean == <<95, 99, 108, 101, 97, 110>> \o SuffixFastq
SuffixSra == <<46, 115, 114, 97>>

\* the suffix main() filters the listing with; massive_fastqc takes it from
\* the command line (here ".fastq")
Suffix(stg) ==
    CASE stg = "fastp" -> SuffixFastq
      [] stg = "fastqc" -> SuffixFastq
      [] stg \in {"bowtie", "hisat2"} -> SuffixClean
      [] OTHER -> SuffixSra

\* "_sorted.bam", "_bowtie.log", "_hisat2.log"
SortedBamTail == <<95, 115, 111, 114, 116, 101, 100, 46, 98, 97, 109>>
BowtieLogTail == <<95, 98, 111, 119, 116, 105, 101, 46, 108, 111, 103>>
Hisat2LogTail == <<95, 104, 105, 115, 97, 116, 50, 46, 108, 111, 103>>

\* --------------------------------------------------- the environment's menu
\* root_dir "/r" and its subdirectory "/r/a", in the top-down order os.walk
\* visits them
Dirs == << <<47, 114>>, <<47, 114, 47, 97>> >>

\* file names "a"+suffix, "b"+suffix, "c"+suffix and "n.txt"
NameA(stg) == <<97>> \o Suffix(stg)
NameB(stg) == <<98>> \o Suffix(stg)
NameC(stg) == <<99>> \o Suffix(stg)
NameOther == <<110, 46, 116, 120, 116>>

\* the listings a directory can have: no match, one match, two matches in
\* either order, three matches (a stage that runs one task per file is
\* given at most two matches per directory)
Listings(stg) ==
    { <<NameOther>>, <<NameA(stg)>>, <<NameB(stg), NameOther, NameA(stg)>> }
    \cup IF stg \in DirStages
         THEN { <<NameA(stg), NameB(stg)>>, <<NameC(stg), NameA(stg), NameB(stg)>> }
         ELSE {}

\* lines of the SRA id file: "a\n" and an empty line "\n"
IdLines == { <<97, 10>>, <<10>> }

RECURSIVE SeqsUpTo(_, _)
SeqsUpTo(S, n) ==
    IF n = 0 THEN {<<>>}
    ELSE LET R == SeqsUpTo(S, n - 1)
         IN R \cup {Append(r, x) : r \in {q \in R : Len(q) = n - 1}, x \in S}

\* characters of a captured stdout: "@", "A", " ", "\n"
TextChars == {64, 65, 32, 10}
Texts == SeqsUpTo(TextChars, MaxLen)

\* what bowtie writes to stdout in a run of the script: nothing, three
\* header lines, a header line and a record
BowtieOutputs ==
    { <<>>, <<64, 10, 64, 10, 64, 10>>, <<64, 10, 65, 10>> }

\* ------------------------------------------------------------------- state
VARIABLES
    stage,        \* the script that is run
    max_workers,  \* --max-workers
    delete,       \* -d / --delete / --delete-fastq
    broken,       \* binaries that cannot be spawned (missing, not executable)
    tree,         \* tree[k]: the listing of directory Dirs[k]
    sra_file,     \* lines of the id file of massive_prefetch
    files,        \* paths that exist
    log,          \* log[d]: what the log file of dataset directory d holds
    unyielded,    \* the finished futures not yet yielded, in the order they finished
    mpc,          \* where the main thread is
    work,         \* dataset_dirs / fastq_paths / sra_paths / sra_list
    futures,      \* one future per submitted task, in submission order
    nthreads,     \* worker threads the executor has started
    idle,         \* the executor's idle semaphore
    first,        \* as_completed: futures found finished when it was called
    waitq,        \* as_completed: futures finished since, oldest first
    results,      \* the dispatcher's results list
    text,         \* a captured stdout under classification
    verdict       \* what is_bowtie_output_empty returned for text

vars == <<stage, max_workers, delete, broken, tree, sra_file, files, log, unyielded,
          mpc, work,
          futures, nthreads, idle, first, waitq, results, text, verdict>>

params == <<stage, max_workers, delete, broken, tree, sra_file>>
pure == <<text, verdict>>

\* ------------------------------------------------------ exceptions, results
NoExc == [type |-> "None", tool |-> "", path |-> <<>>]
\* subprocess.CalledProcessError: "Command '[...]' returned non-zero exit status"
CalledProcessError(tool) == [type |-> "CalledProcessError", tool |-> tool, path |-> <<>>]
\* OSError raised by Popen: "[Errno 2] No such file or directory: '<binary>'"
SpawnError(tool) == [type |-> "FileNotFoundError", tool |-> tool, path |-> <<>>]
\* OSError raised by os.remove: "[Errno 13] Permission denied: '<path>'"
RemoveError(path) == [type |-> "PermissionError", tool |-> "", path |-> path]

NoResult == [msg |-> "None", who |-> <<>>, e |-> NoExc]

\* the binary a step executes
Binary(tool) == IF tool \in {"samtools sort", "samtools index"} THEN "samtools" ELSE tool

\* the binaries a script uses
Binaries(stg) ==
    CASE stg = "prefetch" -> {"prefetch"}
      [] stg = "fasterqdump" -> {"fasterq-dump"}
      [] stg = "fastp" -> {"fastp"}
      [] stg = "fastqc" -> {"fastqc"}
      [] stg = "bowtie" -> {"bowtie", "samtools"}
      [] OTHER -> {"hisat2", "samtools"}

\* the values of --threads; massive_fastqc has no such option and gives its
\* tool "-t", "2"
thread_counts(stg) == IF stg = "fastqc" THEN {2} ELSE 1..MaxThreads

\* the thread-count argument the command of a step is given: "-p"/"-w"/"-@"
\* str(threads), "-@" str(threads // 2) for index, "-t" "2" for fastqc, none
\* for prefetch and fasterq-dump
thread_arg(tool, threads) ==
    CASE tool \in {"bowtie", "hisat2", "fastp", "samtools sort"} -> threads
      [] tool = "samtools index" -> threads \div 2
      [] tool = "fastqc" -> 2
      [] OTHER -> 0

\* ---------------------------------------------------------------- main()
\* the comprehension without its filter: every file of the directory
every_file(stg, root, listing) == [k \in 1..Len(listing) |-> join(root, listing[k])]

\* [os.path.join(root, file) for file in files if file.endswith(suffix)]
Matching(stg, root, listing) ==
    LET hits == SelectSeq(listing, LAMBDA file : endswith(file, Suffix(stg)))
    IN [k \in 1..Len(hits) |-> join(root, hits[k])]

RECURSIVE valid_dirs_only(_, _, _)
\* discovery that keeps a directory only when it has one or two matching files
valid_dirs_only(stg, tr, n) ==
    IF n = 0 THEN <<>>
    ELSE LET fastq_files == Matching(stg, Dirs[n], tr[n])
             before == valid_dirs_only(stg, tr, n - 1)
         IN IF Len(fastq_files) \in {1, 2}
            THEN Append(before, [key |-> Dirs[n], files |-> fastq_files])
            ELSE before

RECURSIVE dataset_dirs(_, _, _)
\* for root, dirs, files in os.walk(root_dir): ... if fastq_files:
\*     dataset_dirs[root] = fastq_files
dataset_dirs(stg, tr, n) ==
    IF n = 0 THEN <<>>
    ELSE LET fastq_files == Matching(stg, Dirs[n], tr[n])
             before == dataset_dirs(stg, tr, n - 1)
         IN IF fastq_files # <<>>
            THEN Append(before, [key |-> Dirs[n], files |-> fastq_files])
            ELSE before

RECURSIVE fastq_paths(_, _, _)
\* for root, dirs, files in os.walk(root_dir): for file in files:
\*     if file.endswith(suffix): paths.append(os.path.join(root, file))
fastq_paths(stg, tr, n) ==
    IF n = 0 THEN <<>>
    ELSE LET here == Matching(stg, Dirs[n], tr[n])
         IN fastq_paths(stg, tr, n - 1)
            \o [k \in 1..Len(here) |-> [key |-> here[k], files |-> <<here[k]>>]]

\* sra_list = [line.strip() for line in file if line.strip()]
sra_list(lines) ==
    LET kept == SelectSeq(lines, LAMBDA line : strip(line) # <<>>)
    IN [k \in 1..Len(kept) |-> [key |-> strip(kept[k]), files |-> <<>>]]

Discovered ==
    CASE stage \in DirStages -> dataset_dirs(stage, tree, Len(Dirs))
      [] stage \in {"fastqc", "fasterqdump"} -> fastq_paths(stage, tree, Len(Dirs))
      [] OTHER -> sra_list(sra_file)

\* main() up to the call of the dispatcher; every script but massive_prefetch
\* prints a message and returns when nothing was found
main ==
    /\ mpc = "main"
    /\ work' = Discovered
    /\ mpc' = IF Discovered = <<>> /\ stage # "prefetch" THEN "nothing" ELSE "submit"
    /\ UNCHANGED <<params, files, log, unyielded, futures, nthreads, idle, first, waitq, results, pure>>

\* ---------------------------------------------------------- the dispatcher
NewFuture(item) ==
    [key |-> item.key, files |-> item.files, st |-> "PENDING", pc |-> "queued",
     alive |-> {}, cmd |-> <<>>, ran |-> <<>>, failed |-> {}, nospawn |-> "",
     out |-> <<>>, undeleted |-> {}, result |-> NoResult, exc |-> NoExc]

Running == {i \in 1..Len(futures) : futures[i].st = "RUNNING"}
Finished == {i \in 1..Len(futures) : futures[i].st = "FINISHED"}

\* threads started with no regard for max_workers
uncapped_thread_count == IF idle > 0 THEN nthreads ELSE nthreads + 1

\* ThreadPoolExecutor._adjust_thread_count: no new thread when a worker has
\* signalled idle or max_workers threads exist
adjust_thread_count ==
    IF idle > 0 THEN nthreads
    ELSE IF nthreads < max_workers THEN nthreads + 1
    ELSE nthreads

\* executor.submit(...) for the next item of the comprehension
submit ==
    /\ mpc = "submit"
    /\ Len(futures) < Len(work)
    /\ futures' = Append(futures, NewFuture(work[Len(futures) + 1]))
    /\ nthreads' = adjust_thread_count
    /\ idle' = IF idle > 0 THEN idle - 1 ELSE idle
    /\ UNCHANGED <<params, files, log, unyielded, mpc, work, first, waitq, results, pure>>

\* as_completed(future_to_dir): the futures already finished are yielded
\* first, in no particular order; the others as they finish
as_completed ==
    /\ mpc = "submit"
    /\ Len(futures) = Len(work)
    /\ mpc' = "collect"
    /\ first' = Finished
    /\ waitq' = <<>>
    /\ UNCHANGED <<params, files, log, unyielded, work, futures, nthreads, idle, results, pure>>

\* the message the dispatcher builds for an exception of future.result()
DispatcherMsg == IF stage = "prefetch" THEN "Error downloading" ELSE "Error processing"

\* no except clause: nothing is caught
caught_nothing(e) == FALSE

\* "except Exception" catches every exception a task can raise here
caught(e) == e.type \in {"CalledProcessError", "FileNotFoundError", "PermissionError"}

\* "except Exception: pass": a task's exception leaves no entry
append_result_only(rs, f) ==
    IF f.exc = NoExc THEN Append(rs, f.result) ELSE rs

\* try: results.append(future.result())
\* except Exception as e: results.append(f"Error processing {dataset_dir}: {e}")
append_outcome(rs, f) ==
    IF f.exc = NoExc THEN Append(rs, f.result)
    ELSE Append(rs, [msg |-> DispatcherMsg, who |-> f.key, e |-> f.exc])

\* the loop body for the future yielded; an exception that is not caught
\* leaves the dispatcher
loop_body(f) ==
    IF f.exc # NoExc /\ ~caught(f.exc)
    THEN mpc' = "raised" /\ results' = results
    ELSE mpc' = mpc /\ results' = append_outcome(results, f)

\* one iteration of "for future in as_completed(...)"
collect ==
    /\ mpc = "collect"
    /\ \/ /\ first # {}
          /\ \E i \in first :
                /\ loop_body(futures[i])
                /\ first' = first \ {i}
                /\ unyielded' = SelectSeq(unyielded, LAMBDA j : j # i)
          /\ UNCHANGED waitq
       \/ /\ first = {}
          /\ waitq # <<>>
          /\ loop_body(futures[Head(waitq)])
          /\ waitq' = Tail(waitq)
          /\ unyielded' = SelectSeq(unyielded, LAMBDA j : j # Head(waitq))
          /\ UNCHANGED first
    /\ UNCHANGED <<params, files, log, work, futures, nthreads, idle, pure>>

\* every future was yielded: the with block shuts the executor down and the
\* dispatcher returns results
return_results ==
    /\ mpc = "collect"
    /\ first = {}
    /\ waitq = <<>>
    /\ Finished = 1..Len(futures)
    /\ mpc' = "returned"
    /\ UNCHANGED <<params, files, log, unyielded, work, futures, nthreads, idle, first, waitq,
                   results, pure>>

\* ------------------------------------------------------------ worker threads
ExitCodes == {0, 1}

\* a worker takes the oldest queued work item when it is free
CanStart(i) ==
    /\ i \in 1..Len(futures)
    /\ futures[i].st = "PENDING"
    /\ \A j \in 1..(i - 1) : futures[j].st # "PENDING"
    /\ Cardinality(Running) < nthreads

Spawned(f, tool) ==
    [f EXCEPT !.st = "RUNNING", !.pc = tool, !.alive = @ \cup {tool},
              !.ran = Append(@, tool)]

Exited(f, tool, rc) ==
    [f EXCEPT !.alive = @ \ {tool},
              !.failed = IF rc # 0 THEN @ \cup {tool} ELSE @]

\* the task function returns msg
Returned(f, msg, e) ==
    [f EXCEPT !.st = "FINISHED", !.pc = "done",
              !.result = [msg |-> msg, who |-> f.key, e |-> e]]

\* an exception leaves the task function; the future keeps it
Raised(f, e) == [f EXCEPT !.st = "FINISHED", !.pc = "done", !.exc = e]

NoSpawn(f, tool) == [f EXCEPT !.nospawn = tool]

\* the finished future put in front of the ones waiting to be yielded
add_result_in_front(q, i) == <<i>> \o q

\* _AsCompletedWaiter.add_result: the finished future goes to the end of
\* waiter.finished_futures, which as_completed yields oldest first
add_result(q, i) == Append(q, i)

\* future i becomes f2 and the filesystem fs2; a worker that finishes its
\* item releases the idle semaphore and wakes as_completed
TaskStepLog(i, f2, fs2, lg2) ==
    LET finishes == f2.st = "FINISHED" /\ futures[i].st # "FINISHED"
    IN /\ futures' = [futures EXCEPT ![i] = f2]
       /\ files' = fs2
       /\ log' = lg2
       /\ unyielded' = IF finishes THEN Append(unyielded, i) ELSE unyielded
       /\ idle' = IF finishes THEN idle + 1 ELSE idle
       /\ waitq' = IF finishes /\ mpc = "collect" THEN add_result(waitq, i) ELSE waitq
       /\ UNCHANGED <<params, mpc, work, nthreads, first, results, pure>>

\* a step that leaves the log files alone
TaskStep(i, f2, fs2) == TaskStepLog(i, f2, fs2, log)

\* ----------------------------------------------- massive_prefetch.py: 7-17
download_sra(i) ==
    /\ stage = "prefetch"
    /\ CanStart(i)
    /\ IF "prefetch" \in broken
       THEN TaskStep(i, Raised(NoSpawn(futures[i], "prefetch"), SpawnError("prefetch")), files)
       ELSE TaskStep(i, Spawned(futures[i], "prefetch"), files)

prefetch_exit(i) ==
    /\ i \in 1..Len(futures)
    /\ futures[i].pc = "prefetch"
    /\ \E rc \in ExitCodes :
          LET f == Exited(futures[i], "prefetch", rc)
          IN IF rc # 0
             THEN TaskStep(i, Returned(f, "Download failed for", CalledProcessError("prefetch")), files)
             ELSE TaskStep(i, Returned(f, "Download successful for", NoExc), files)

\* ------------------------------------------------ massive_fastqc.py: 7-17
run_fastqc(i) ==
    /\ stage = "fastqc"
    /\ CanStart(i)
    /\ IF "fastqc" \in broken
       THEN TaskStep(i, Raised(NoSpawn(futures[i], "fastqc"), SpawnError("fastqc")), files)
       ELSE TaskStep(i, Spawned([futures[i] EXCEPT !.cmd = @ \o futures[i].files], "fastqc"), files)

fastqc_exit(i) ==
    /\ i \in 1..Len(futures)
    /\ futures[i].pc = "fastqc"
    /\ \E rc \in ExitCodes :
          LET f == Exited(futures[i], "fastqc", rc)
          IN IF rc # 0
             THEN TaskStep(i, Returned(f, "FastQC failed for", CalledProcessError("fastqc")), files)
             ELSE TaskStep(i, Returned(f, "FastQC completed for", NoExc), files)

\* -------------------------------------------- massive_fasterqdump.py: 7-27
process_sra(i) ==
    /\ stage = "fasterqdump"
    /\ CanStart(i)
    /\ IF "fasterq-dump" \in broken
       THEN TaskStep(i, Returned(NoSpawn(futures[i], "fasterq-dump"), "Error deleting",
                                 SpawnError("fasterq-dump")), files)
       ELSE TaskStep(i, Spawned([futures[i] EXCEPT !.cmd = @ \o futures[i].files],
                                "fasterq-dump"), files)

fasterq_dump_exit(i) ==
    /\ i \in 1..Len(futures)
    /\ futures[i].pc = "fasterq-dump"
    /\ \E rc \in ExitCodes :
          LET f == Exited(futures[i], "fasterq-dump", rc)
          IN IF rc # 0
             THEN TaskStep(i, Returned(f, "Error processing", CalledProcessError("fasterq-dump")), files)
             ELSE IF ~delete
             THEN TaskStep(i, Returned(f, "Processed successfully", NoExc), files)
             ELSE \/ TaskStep(i, Returned(f, "Processed successfully", NoExc), files \ {f.key})
                  \/ TaskStep(i, Returned([f EXCEPT !.undeleted = {f.key}], "Error deleting",
                                          RemoveError(f.key)), files)

\* ------------------------------------------------- massive_fastp.py: 7-63
\* the input arguments of the command: the sorted pair, or the single file
InputArgs(fastq_files) ==
    IF Len(fastq_files) = 2 THEN sorted(fastq_files) ELSE <<fastq_files[1]>>

\* only the first input is recorded as processed
first_processed_only(f) == {f.cmd[1]}

\* processed_files after processed_files.extend([fastq1, fastq2]) or
\* processed_files.append(fastq)
processed_files(f) == {f.cmd[k] : k \in 1..Len(f.cmd)}

process_fastq(i) ==
    /\ stage = "fastp"
    /\ CanStart(i)
    /\ LET f == futures[i]
       IN IF Len(f.files) \notin {1, 2}
          THEN TaskStep(i, Returned(f, "No valid FASTQ files found in", NoExc), files)
          ELSE IF "fastp" \in broken
          THEN TaskStep(i, Raised(NoSpawn(f, "fastp"), SpawnError("fastp")), files)
          ELSE TaskStep(i, Spawned([f EXCEPT !.cmd = InputArgs(f.files)], "fastp"), files)

\* check=True raises before processed_files is extended, so the finally
\* clause removes files only after exit status 0; a failed os.remove is
\* printed and the loop goes on (undeleted: the files whose os.remove raised)
fastp_exit(i) ==
    /\ i \in 1..Len(futures)
    /\ futures[i].pc = "fastp"
    /\ \E rc \in ExitCodes :
          LET f == Exited(futures[i], "fastp", rc)
              ok == IF Len(f.files) = 2 THEN "Processed paired-end FASTQ files in"
                    ELSE "Processed single-end FASTQ file in"
          IN IF rc # 0
             THEN TaskStep(i, Returned(f, "Error processing FASTQ files in",
                                       CalledProcessError("fastp")), files)
             ELSE IF ~delete
             THEN TaskStep(i, Returned(f, ok, NoExc), files)
             ELSE \E gone \in SUBSET processed_files(f) :
                     TaskStep(i, Returned([f EXCEPT !.undeleted = processed_files(f) \ gone],
                                          ok, NoExc), files \ gone)

\* ----------------------------------- massive_bowtie.py / massive_hisat2.py
\* dataset_name = os.path.basename(dataset_dir); os.path.join(dataset_dir, ...)
sorted_bam(dataset_dir) == join(dataset_dir, basename(dataset_dir) \o SortedBamTail)
bowtie_log(dataset_dir) == join(dataset_dir, basename(dataset_dir) \o BowtieLogTail)
hisat2_log(dataset_dir) == join(dataset_dir, basename(dataset_dir) \o Hisat2LogTail)

\* the dataset directories of a run
DirSet == {Dirs[k] : k \in 1..Len(Dirs)}

\* what an earlier run of the script wrote to a log
EarlierRun == "earlier run"

\* the log file of a dataset directory in a script
log_file(stg, dataset_dir) ==
    IF stg = "bowtie" THEN bowtie_log(dataset_dir) ELSE hisat2_log(dataset_dir)

\* open(log_file, "w"): the file is created, or truncated when it exists
open_w(lg, dataset_dir) == [lg EXCEPT ![dataset_dir] = <<>>]

\* stderr=log: what the command writes to standard error goes to the end of
\* the open log (the commands of a task share the file offset; line 63 of
\* massive_hisat2.py opens the log again with "a")
stderr_to(lg, dataset_dir, tool) == [lg EXCEPT ![dataset_dir] = Append(@, tool)]

\* "fastp_report.html", "fastp_report.json"
ReportHtml == <<102, 97, 115, 116, 112, 95, 114, 101, 112, 111, 114, 116, 46, 104, 116, 109, 108>>
ReportJson == <<102, 97, 115, 116, 112, 95, 114, 101, 112, 111, 114, 116, 46, 106, 115, 111, 110>>

\* the paths a task of a script writes that it derives from the dataset
\* directory alone
output_paths(stg, dataset_dir) ==
    CASE stg = "fastp" -> {join(dataset_dir, ReportHtml), join(dataset_dir, ReportJson)}
      [] stg = "bowtie" -> {sorted_bam(dataset_dir), bowtie_log(dataset_dir)}
      [] stg = "hisat2" -> {sorted_bam(dataset_dir), hisat2_log(dataset_dir)}
      [] OTHER -> {}

\* if delete_fastq: for fastq in fastq_files: os.remove(fastq); the first
\* os.remove that fails raises OSError out of the loop
delete_fastq(i, f, okmsg) ==
    IF ~delete
    THEN TaskStep(i, Returned(f, okmsg, NoExc), files)
    ELSE \E k \in 0..Len(f.files) :
            LET gone == {f.files[j] : j \in 1..k}
            IN IF k = Len(f.files)
               THEN TaskStep(i, Returned(f, okmsg, NoExc), files \ gone)
               ELSE TaskStep(i, Returned([f EXCEPT !.undeleted = {f.files[k + 1]}],
                                         "Error deleting files in",
                                         RemoveError(f.files[k + 1])), files \ gone)

\* ------------------------------------------------ massive_bowtie.py: 16-89
\* lines 17-57: the log is opened for writing, the command is built and
\* bowtie is started
run_bowtie_and_process(i) ==
    /\ stage = "bowtie"
    /\ CanStart(i)
    /\ LET f == futures[i]
           fs == files \cup {bowtie_log(f.key)}
           lg == open_w(log, f.key)
       IN IF Len(f.files) \notin {1, 2}
          THEN TaskStepLog(i, Returned(f, "No valid FASTQ files found for alignment in", NoExc),
                           fs, lg)
          ELSE IF "bowtie" \in broken
          THEN TaskStepLog(i, Returned(NoSpawn(f, "bowtie"), "Error deleting files in",
                                       SpawnError("bowtie")), fs, lg)
          ELSE TaskStepLog(i, Spawned([f EXCEPT !.cmd = InputArgs(f.files)], "bowtie"),
                           fs, stderr_to(lg, f.key, "bowtie"))

\* lines 52-71: bowtie has exited (its status is not looked at); the captured
\* stdout is classified; the BAM is opened for writing and sort is started
bowtie_exit(i) ==
    /\ i \in 1..Len(futures)
    /\ futures[i].pc = "bowtie"
    /\ \E rc \in ExitCodes, stdout \in BowtieOutputs :
          LET f == [Exited(futures[i], "bowtie", rc) EXCEPT !.out = stdout]
              fs == files \cup {sorted_bam(f.key)}
          IN IF is_bowtie_output_empty(stdout)
             THEN TaskStep(i, Returned(f, "No alignments found for", NoExc), files)
             ELSE IF "samtools" \in broken
             THEN TaskStep(i, Returned(NoSpawn(f, "samtools"), "Error deleting files in",
                                       SpawnError("samtools")), fs)
             ELSE TaskStepLog(i, Spawned(f, "samtools sort"), fs,
                              stderr_to(log, f.key, "samtools sort"))

\* lines 65-78: sort has exited (check=True); index is started
bowtie_sort_exit(i) ==
    /\ stage = "bowtie"
    /\ i \in 1..Len(futures)
    /\ futures[i].pc = "samtools sort"
    /\ \E rc \in ExitCodes :
          LET f == Exited(futures[i], "samtools sort", rc)
          IN IF rc # 0
             THEN TaskStep(i, Returned(f, "Error during processing in",
                                       CalledProcessError("samtools sort")), files)
             ELSE TaskStepLog(i, Spawned(f, "samtools index"), files,
                              stderr_to(log, f.key, "samtools index"))

\* lines 74-89: index has exited (check=True); the inputs are deleted
bowtie_index_exit(i) ==
    /\ stage = "bowtie"
    /\ i \in 1..Len(futures)
    /\ futures[i].pc = "samtools index"
    /\ \E rc \in ExitCodes :
          LET f == Exited(futures[i], "samtools index", rc)
          IN IF rc # 0
             THEN TaskStep(i, Returned(f, "Error during processing in",
                                       CalledProcessError("samtools index")), files)
             ELSE delete_fastq(i, f, "Alignment completed for")

\* ------------------------------------------------ massive_hisat2.py: 7-75
\* lines 8-53: the command is built, the log is opened for writing, hisat2
\* is started with Popen, the BAM is opened and sort is started on its pipe
run_hisat2_and_process(i) ==
    /\ stage = "hisat2"
    /\ CanStart(i)
    /\ LET f == futures[i]
           fs1 == files \cup {hisat2_log(f.key)}
           fs2 == fs1 \cup {sorted_bam(f.key)}
           g == Spawned([f EXCEPT !.cmd = InputArgs(f.files)], "hisat2")
           lg == open_w(log, f.key)
       IN IF Len(f.files) \notin {1, 2}
          THEN TaskStep(i, Returned(f, "No valid FASTQ files found for alignment in", NoExc), files)
          ELSE IF "hisat2" \in broken
          THEN TaskStepLog(i, Returned(NoSpawn(f, "hisat2"), "Error deleting files in",
                                       SpawnError("hisat2")), fs1, lg)
          ELSE IF "samtools" \in broken
          THEN TaskStepLog(i, Returned(NoSpawn(g, "samtools"), "Error deleting files in",
                                       SpawnError("samtools")), fs2,
                           stderr_to(lg, f.key, "hisat2"))
          ELSE TaskStepLog(i, Spawned(g, "samtools sort"), fs2,
                           stderr_to(stderr_to(lg, f.key, "hisat2"), f.key, "samtools sort"))

\* lines 57-67, after hisat2_process.wait() has returned
after_wait(i, f) ==
    IF "hisat2" \in f.failed
    THEN TaskStep(i, Returned(f, "HISAT2 error in", NoExc), files)
    ELSE TaskStepLog(i, Spawned(f, "samtools index"), files,
                     stderr_to(log, f.key, "samtools index"))

\* hisat2 blocked for good on a pipe nobody reads once sort has gone
hisat2_blocks_on_pipe(i) ==
    /\ i \in 1..Len(futures)
    /\ "hisat2" \in futures[i].alive
    /\ futures[i].pc = "samtools sort"
    /\ \E rc \in ExitCodes : TaskStep(i, Exited(futures[i], "hisat2", rc), files)

\* the hisat2 process exits, whether or not the task is waiting for it (the
\* task may even have returned: lines 72-75 do not wait for it)
hisat2_exit(i) ==
    /\ i \in 1..Len(futures)
    /\ "hisat2" \in futures[i].alive
    /\ \E rc \in ExitCodes :
          LET f == futures[i]
          IN IF f.pc = "hisat2" THEN after_wait(i, Exited(f, "hisat2", rc))
             ELSE IF f.pc = "done" THEN TaskStep(i, Exited(f, "hisat2", 0), files)
             ELSE TaskStep(i, Exited(f, "hisat2", rc), files)

\* lines 49-57: sort has exited (check=True); the pipe is closed and the
\* task waits for hisat2
hisat2_sort_exit(i) ==
    /\ stage = "hisat2"
    /\ i \in 1..Len(futures)
    /\ futures[i].pc = "samtools sort"
    /\ \E rc \in ExitCodes :
          LET f == Exited(futures[i], "samtools sort", rc)
          IN IF rc # 0
             THEN TaskStep(i, Returned(f, "Error during processing in",
                                       CalledProcessError("samtools sort")), files)
             ELSE IF "hisat2" \in f.alive
             THEN TaskStep(i, [f EXCEPT !.pc = "hisat2"], files)
             ELSE after_wait(i, f)

\* lines 63-75: index has exited (check=True); the inputs are deleted
hisat2_index_exit(i) ==
    /\ stage = "hisat2"
    /\ i \in 1..Len(futures)
    /\ futures[i].pc = "samtools index"
    /\ \E rc \in ExitCodes :
          LET f == Exited(futures[i], "samtools index", rc)
          IN IF rc # 0
             THEN TaskStep(i, Returned(f, "Error during processing in",
                                       CalledProcessError("samtools index")), files)
             ELSE delete_fastq(i, f, "Alignment completed for")

\* ------------------------------------------------- classification, alone
classify ==
    /\ mpc = "text"
    /\ verdict = "unset"
    /\ verdict' = IF is_bowtie_output_empty(text) THEN "empty" ELSE "not empty"
    /\ UNCHANGED <<params, files, log, unyielded, mpc, work, futures, nthreads, idle, first, waitq,
                   results, text>>

\* ----------------------------------------------------------- specifications
InitWith(menu) ==
    /\ stage \in Stages
    /\ max_workers \in 1..MaxWorkers
    /\ delete \in BOOLEAN
    /\ broken \in SUBSET Binaries(stage)
    /\ tree \in IF stage = "prefetch" THEN {[k \in 1..Len(Dirs) |-> <<>>]}
               ELSE [1..Len(Dirs) -> menu[stage]]
    /\ sra_file \in IF stage = "prefetch" THEN SeqsUpTo(IdLines, MaxIds) ELSE {<<>>}
    /\ log \in IF stage \in {"bowtie", "hisat2"}
              THEN [DirSet -> {<<>>, <<EarlierRun>>}]
              ELSE {[d \in DirSet |-> <<>>]}
    /\ files = UNION {{join(Dirs[k], tree[k][j]) : j \in 1..Len(tree[k])} : k \in 1..Len(Dirs)}
               \cup {log_file(stage, d) : d \in {e \in DirSet : log[e] # <<>>}}
    /\ unyielded = <<>>
    /\ mpc = "main"
    /\ work = <<>>
    /\ futures = <<>>
    /\ nthreads = 0
    /\ idle = 0
    /\ first = {}
    /\ waitq = <<>>
    /\ results = <<>>
    /\ text = <<>>
    /\ verdict = "unset"

Init == InitWith([stg \in Stages |-> Listings(stg)])

Next ==
    \/ main
    \/ submit
    \/ as_completed
    \/ collect
    \/ return_results
    \/ \E i \in 1..Len(futures) : download_sra(i)
    \/ \E i \in 1..Len(futures) : prefetch_exit(i)
    \/ \E i \in 1..Len(futures) : run_fastqc(i)
    \/ \E i \in 1..Len(futures) : fastqc_exit(i)
    \/ \E i \in 1..Len(futures) : process_sra(i)
    \/ \E i \in 1..Len(futures) : fasterq_dump_exit(i)
    \/ \E i \in 1..Len(futures) : process_fastq(i)
    \/ \E i \in 1..Len(futures) : fastp_exit(i)
    \/ \E i \in 1..Len(futures) : run_bowtie_and_process(i)
    \/ \E i \in 1..Len(futures) : bowtie_exit(i)
    \/ \E i \in 1..Len(futures) : bowtie_sort_exit(i)
    \/ \E i \in 1..Len(futures) : bowtie_index_exit(i)
    \/ \E i \in 1..Len(futures) : run_hisat2_and_process(i)
    \/ \E i \in 1..Len(futures) : hisat2_exit(i)
    \/ \E i \in 1..Len(futures) : hisat2_sort_exit(i)
    \/ \E i \in 1..Len(futures) : hisat2_index_exit(i)

Spec == Init /\ [][Next]_vars

\* the threads of the program: the main thread, and the worker running task i
\* together with the processes it started
MainThread == main \/ submit \/ as_completed \/ collect \/ return_results

Task(i) ==
    \/ download_sra(i) \/ prefetch_exit(i)
    \/ run_fastqc(i) \/ fastqc_exit(i)
    \/ process_sra(i) \/ fasterq_dump_exit(i)
    \/ process_fastq(i) \/ fastp_exit(i)
    \/ run_bowtie_and_process(i) \/ bowtie_exit(i)
    \/ bowtie_sort_exit(i) \/ bowtie_index_exit(i)
    \/ run_hisat2_and_process(i) \/ hisat2_exit(i)
    \/ hisat2_sort_exit(i) \/ hisat2_index_exit(i)

\* no run submits more tasks than this
TaskIds == 1..(IF MaxIds > 2 * Len(Dirs) THEN MaxIds ELSE 2 * Len(Dirs))

\* the listings with a match, one of each number of matches
ListingsWithMatch(stg) ==
    { <<NameA(stg)>>, <<NameB(stg), NameOther, NameA(stg)>> }
    \cup IF stg \in DirStages
         THEN { <<NameC(stg), NameA(stg), NameB(stg)>> }
         ELSE {}

InitLive == InitWith([stg \in Stages |-> ListingsWithMatch(stg)])

\* every thread keeps being scheduled and every external process exits
FairSpec ==
    /\ InitLive
    /\ [][Next]_vars
    /\ WF_vars(MainThread)
    /\ \A i \in TaskIds : WF_vars(Task(i))

\* the classifier applied to one captured text
InitText ==
    /\ stage = "bowtie"
    /\ max_workers = 1
    /\ delete = FALSE
    /\ broken = {}
    /\ tree = [k \in 1..Len(Dirs) |-> <<>>]
    /\ sra_file = <<>>
    /\ files = {}
    /\ log = [d \in DirSet |-> <<>>]
    /\ unyielded = <<>>
    /\ mpc = "text"
    /\ work = <<>>
    /\ futures = <<>>
    /\ nthreads = 0
    /\ idle = 0
    /\ first = {}
    /\ waitq = <<>>
    /\ results = <<>>
    /\ text \in Texts
    /\ verdict = "unset"

SpecText == InitText /\ [][classify]_vars

\* ------------------------------------------------------------------ claims
Range(s) == {s[k] : k \in 1..Len(s)}

\* the entry the results list is to hold for a finished future
OutcomeOf(f) ==
    IF f.exc = NoExc THEN f.result
    ELSE [msg |-> DispatcherMsg, who |-> f.key, e |-> f.exc]

\* the futures the loop of the dispatcher has been handed
Collected ==
    IF mpc \in {"collect", "returned", "raised"}
    THEN {i \in Finished : i \notin first /\ i \notin Range(waitq)}
    ELSE {}

\* C1: the results list never holds more entries than tasks have finished,
\* and when the dispatcher returns it holds exactly one entry per submitted
\* task: the entries are, in some order, the outcomes of the N futures,
\* whether the task returned a success message, an error message or raised.
C1_OneOutcomePerTask ==
    /\ Len(results) <= Cardinality(Finished)
    /\ mpc = "returned" =>
          /\ Len(futures) = Len(work)
          /\ Len(results) = Len(work)
          /\ \E p \in Permutations(1..Len(work)) :
                \A i \in 1..Len(work) : results[p[i]] = OutcomeOf(futures[i])

C1_Witness ==
    /\ mpc = "returned"
    /\ Len(work) >= 2
    /\ \E i, j \in 1..Len(futures) :
          /\ futures[i].exc # NoExc
          /\ futures[j].exc = NoExc

\* C2: in every reachable state at most max_workers tasks are running.
C2_AtMostCapacityRunning == Cardinality(Running) <= max_workers

C2_Witness ==
    /\ max_workers = 2
    /\ Cardinality(Running) = 2
    /\ \E i \in 1..Len(futures) : futures[i].st = "PENDING"

\* C3: the dispatcher never raises; an exception that escaped a task is in
\* the results as an entry carrying the exception, the tasks that did not
\* raise have their own outcomes in the results when the dispatcher returns,
\* and a step of the program only ever appends to the results.
C3_State ==
    /\ mpc # "raised"
    /\ \A i \in Collected :
          futures[i].exc # NoExc =>
             [msg |-> DispatcherMsg, who |-> futures[i].key, e |-> futures[i].exc]
                \in Range(results)
    /\ mpc = "returned" =>
          \A i \in 1..Len(futures) :
             /\ futures[i].st = "FINISHED"
             /\ futures[i].exc = NoExc => futures[i].result \in Range(results)

C3_Step ==
    /\ Len(results') >= Len(results)
    /\ SubSeq(results', 1, Len(results)) = results

C3_DispatcherNeverRaises == [](C3_State) /\ [][C3_Step]_vars

C3_Witness ==
    /\ mpc = "returned"
    /\ \E i, j \in 1..Len(futures) :
          /\ futures[i].exc # NoExc
          /\ futures[j].exc = NoExc
          /\ futures[j].result.msg = "No valid FASTQ files found in"
          /\ futures[j].result \in Range(results)
          /\ OutcomeOf(futures[i]) \in Range(results)

\* C4: when every thread is scheduled and every external process exits, the
\* run of the script comes to its end (the dispatcher returns, or main found
\* nothing to do), and every submitted task is finished with its outcome in
\* the results, for every capacity and number of tasks.
C4_Resolved(i) ==
    /\ i <= Len(futures)
    /\ futures[i].st = "FINISHED"
    /\ OutcomeOf(futures[i]) \in Range(results)

C4_AllResolved ==
    /\ mpc \in {"returned", "nothing"}
    /\ Len(futures) = Len(work)
    /\ \A i \in 1..Len(futures) : C4_Resolved(i)

C4_EveryTaskResolves == <>C4_AllResolved

C4_Witness ==
    /\ mpc = "returned"
    /\ max_workers = 1
    /\ Len(futures) >= 3
    /\ \A i \in 1..Len(futures) : C4_Resolved(i)

\* the statuses of the outcome messages
ToolFailedMsgs ==
    {"Error during processing in", "HISAT2 error in", "Error processing FASTQ files in",
     "Error processing", "Error downloading", "FastQC failed for", "Download failed for"}
FilesystemFailedMsgs == {"Error deleting files in", "Error deleting"}
SkippedMsgs ==
    {"No valid FASTQ files found in", "No valid FASTQ files found for alignment in"}
CompletedEmptyMsg == "No alignments found for"

\* the message names the step: it quotes the command that exited non-zero,
\* or it is the HISAT2 message
NamesStep(r, tool) ==
    \/ r.e = CalledProcessError(tool)
    \/ r.msg = "HISAT2 error in" /\ tool = "hisat2"

\* C5: a task one of whose steps exited non-zero ends with a tool-failed
\* outcome that names a step that failed; in particular it does not end with
\* the 'No alignments found' outcome.
C5_NonZeroExitIsToolFailed ==
    \A i \in Finished :
       futures[i].failed # {} =>
          /\ OutcomeOf(futures[i]).msg \in ToolFailedMsgs
          /\ OutcomeOf(futures[i]).msg # CompletedEmptyMsg
          /\ \E tool \in futures[i].failed : NamesStep(OutcomeOf(futures[i]), tool)

\* a line is a header line or blank
HeaderOrBlank(line) == startswith(line, <<64>>) \/ strip(line) = <<>>

\* the captured text holds no alignment record
NoRecords(t) == \A k \in 1..Len(splitlines(t)) : HeaderOrBlank(splitlines(t)[k])

\* C6: is_bowtie_output_empty returns true exactly when every line of the
\* captured text is a header line (first character "@") or blank.
C6_EmptyIffHeadersAndBlanks ==
    verdict # "unset" => (verdict = "empty" <=> NoRecords(text))

\* bowtie has run for task f and its output was captured
BowtieCaptured(f) ==
    /\ stage = "bowtie"
    /\ "bowtie" \in Range(f.ran)
    /\ "bowtie" \notin f.alive

\* C7: when the output captured from bowtie holds no alignment record, the
\* task starts neither sort nor index, the sorted BAM is not created, and
\* the task ends with the 'No alignments found' outcome.
C7_NoRecordsSkipsSortAndIndex ==
    \A i \in 1..Len(futures) :
       BowtieCaptured(futures[i]) /\ NoRecords(futures[i].out) =>
          /\ "samtools sort" \notin Range(futures[i].ran)
          /\ "samtools index" \notin Range(futures[i].ran)
          /\ sorted_bam(futures[i].key) \notin files
          /\ futures[i].st = "FINISHED"
          /\ futures[i].result.msg = CompletedEmptyMsg

\* C8: a trim or alignment task on two files gives the tool the two files,
\* the lexicographically smaller full path first, in whatever order the
\* listing delivered them.
C8_SmallerPathIsFileOne ==
    \A i \in 1..Len(futures) :
       stage \in DirStages /\ Len(futures[i].files) = 2 /\ futures[i].ran # <<>> =>
          /\ Len(futures[i].cmd) = 2
          /\ {futures[i].cmd[1], futures[i].cmd[2]} = Range(futures[i].files)
          /\ LexLess(futures[i].cmd[1], futures[i].cmd[2])

C8_Witness ==
    \E i \in 1..Len(futures) :
       /\ stage \in DirStages
       /\ Len(futures[i].files) = 2
       /\ LexLess(futures[i].files[2], futures[i].files[1])
       /\ futures[i].ran # <<>>
       /\ futures[i].cmd = <<futures[i].files[2], futures[i].files[1]>>

\* the number of matching files directly in directory k
MatchCount(k) == Cardinality({j \in 1..Len(tree[k]) : endswith(tree[k][j], Suffix(stage))})

C10_SpawnFailureIsToolFailed ==
    \A i \in Finished :
       futures[i].nospawn # "" =>
          /\ OutcomeOf(futures[i]).msg \in ToolFailedMsgs
          /\ OutcomeOf(futures[i]).msg \notin FilesystemFailedMsgs
          /\ OutcomeOf(futures[i]).e.type # "CalledProcessError"

\* the trim task ended with one of its two 'Processed ...' outcomes
TrimCompleted(f) ==
    /\ f.st = "FINISHED"
    /\ f.result.msg \in {"Processed paired-end FASTQ files in",
                         "Processed single-end FASTQ file in"}

\* the trimmer of the task exited non-zero or could not be spawned
TrimFailed(f) == "fastp" \in f.failed \/ f.nospawn = "fastp"

\* C11 as stated: after a trim task that completed with delete_original set,
\* none of its input files exists; with delete_original unset every input
\* file exists at all times; and the input files of a task whose trimmer
\* failed or could not be spawned exist, whatever delete_original is.
C11_TrimDeletesEveryOriginal ==
    stage = "fastp" =>
       \A i \in 1..Len(futures) :
          /\ delete /\ TrimCompleted(futures[i]) =>
                \A p \in Range(futures[i].files) : p \notin files
          /\ ~delete => Range(futures[i].files) \subseteq files
          /\ TrimFailed(futures[i]) => Range(futures[i].files) \subseteq files

\* C11 amended: after a trim task that completed with delete_original set,
\* every input file whose removal did not fail is gone (a file whose removal
\* failed is still there); with delete_original unset every input file
\* exists at all times; and the input files of a task whose trimmer failed
\* or could not be spawned exist, whatever delete_original is.
C11_TrimDeletesUnlessRemoveFails ==
    stage = "fastp" =>
       \A i \in 1..Len(futures) :
          /\ delete /\ TrimCompleted(futures[i]) =>
                \A p \in Range(futures[i].files) :
                   p \in files <=> p \in futures[i].undeleted
          /\ ~delete => Range(futures[i].files) \subseteq files
          /\ TrimFailed(futures[i]) => Range(futures[i].files) \subseteq files

C11_Witness ==
    /\ stage = "fastp"
    /\ delete
    /\ \E i, j \in 1..Len(futures) :
          /\ TrimCompleted(futures[i])
          /\ Len(futures[i].files) = 2
          /\ Range(futures[i].files) \cap files = {}
          /\ futures[j].st = "FINISHED"
          /\ TrimFailed(futures[j])
          /\ Range(futures[j].files) \subseteq files

\* a is the beginning of b
IsPrefix(a, b) == Len(a) <= Len(b) /\ SubSeq(b, 1, Len(a)) = a

\* the standard error of every command a task has started is in the log of
\* the task's dataset directory
C12_State ==
    stage \in {"bowtie", "hisat2"} =>
       \A i \in 1..Len(futures) :
          \A tool \in Range(futures[i].ran) : tool \in Range(log[futures[i].key])

\* what a log holds is kept, at its place, by every step
C12_Step == \A d \in DirSet : IsPrefix(log[d], log'[d])

\* C12: the standard error of every external command of an alignment task is
\* written to the log of its dataset directory, and no step of the program
\* truncates or overwrites what a log already holds, be it from an earlier
\* step of the task or from an earlier run.
C12_LogIsAppendOnly == [](C12_State) /\ [][C12_Step]_vars

\* C13: the output paths of a task that has started are output paths of no
\* other script for the same dataset directory; in particular the sorted BAM
\* an alignment task writes is not the sorted BAM of the other aligner.
C13_StagesNeverShareOutputPath ==
    \A i \in 1..Len(futures) :
       stage \in DirStages /\ futures[i].ran # <<>> =>
          \A other \in DirStages \ {stage} :
             output_paths(stage, futures[i].key) \cap output_paths(other, futures[i].key) = {}

\* the quality-report invocations that are running
FastqcAlive == {i \in 1..Len(futures) : "fastqc" \in futures[i].alive}

\* one invocation per discovered file: the tasks are the matching files of
\* the tree, each once, and a task that has started its tool started it once,
\* on its own file
C14_OnePerFile ==
    /\ mpc \notin {"main", "nothing"} =>
          /\ \A k \in 1..Len(Dirs) : \A j \in 1..Len(tree[k]) :
                endswith(tree[k][j], Suffix(stage)) =>
                   Cardinality({n \in 1..Len(work) : work[n].key = join(Dirs[k], tree[k][j])}) = 1
          /\ \A n \in 1..Len(work) : work[n].key \in files
    /\ \A i \in 1..Len(futures) :
          /\ futures[i].key = work[i].key
          /\ futures[i].ran \in {<<>>, <<"fastqc">>}
          /\ futures[i].ran # <<>> => futures[i].cmd = <<futures[i].key>>
          /\ futures[i].st = "FINISHED" /\ futures[i].nospawn = "" => futures[i].ran # <<>>

\* C14: the quality-report script starts its tool once per discovered file,
\* and no two invocations that are running at the same time write the same
\* output file name in the shared output directory (the tool names its output
\* by the basename of its input).
C14_NoOutputNameCollision ==
    stage = "fastqc" =>
       /\ C14_OnePerFile
       /\ \A i, j \in FastqcAlive :
             i # j => basename(futures[i].cmd[1]) # basename(futures[j].cmd[1])

\* a step of the dispatcher that put one more outcome in the results
Appends == results' # results

\* C15 as stated: every outcome the dispatcher appends is the outcome of the
\* task that finished first among the tasks whose outcome is not yet in the
\* results, so the results are in the order the tasks finished.
C15_ResultsInCompletionOrder ==
    [][Appends => unyielded' = Tail(unyielded)]_vars

\* C15 amended: the outcomes of the tasks that had finished when the
\* dispatcher started to collect (the call of as_completed) come first, in no
\* particular order; after them every outcome appended is the outcome of the
\* task that finished first among the tasks not yet in the results, so if A
\* finishes before B and B finishes after the start of the collection, A's
\* outcome precedes B's.
C15_CompletionOrderOnceCollecting ==
    [][Appends =>
         \/ first # {} /\ first' # first /\ waitq' = waitq
         \/ first = {} /\ unyielded' = Tail(unyielded)]_vars

C15_Witness ==
    /\ mpc = "collect"
    /\ first = {}
    /\ results # <<>>
    /\ Len(waitq) >= 2
    /\ unyielded = waitq

\* the paths of the matching files directly in directory k
MatchPaths(k) ==
    {join(Dirs[k], tree[k][j]) : j \in {n \in 1..Len(tree[k]) : endswith(tree[k][n], Suffix(stage))}}

\* the groups discovery made for directory k
GroupsOf(k) == {n \in 1..Len(work) : work[n].key = Dirs[k]}

\* C16: once main has walked the tree, the work holds exactly one group for
\* every directory with a matching file, keyed by the directory and holding
\* exactly the matching files of the directory, each once, and no group for
\* a directory without a matching file nor for anything else.
C16_OneGroupPerMatchingDir ==
    stage \in DirStages /\ mpc # "main" =>
       /\ \A k \in 1..Len(Dirs) :
             IF MatchCount(k) = 0 THEN GroupsOf(k) = {}
             ELSE /\ Cardinality(GroupsOf(k)) = 1
                  /\ \A n \in GroupsOf(k) :
                        /\ Range(work[n].files) = MatchPaths(k)
                        /\ Len(work[n].files) = MatchCount(k)
       /\ \A n \in 1..Len(work) : work[n].key \in DirSet

C16_Witness ==
    /\ stage \in DirStages
    /\ mpc = "submit"
    /\ Len(work) = 1
    /\ \E k, z \in 1..Len(Dirs) :
          /\ MatchCount(z) = 0
          /\ tree[z] # <<>>
          /\ MatchCount(k) = 2
          /\ Len(tree[k]) = 3
          /\ Range(work[1].files) = MatchPaths(k)

\* index is started only once sort has exited with status zero
C17_State ==
    \A i \in 1..Len(futures) :
       stage \in {"bowtie", "hisat2"} /\ "samtools index" \in Range(futures[i].ran) =>
          /\ "samtools sort" \in Range(futures[i].ran)
          /\ "samtools sort" \notin futures[i].alive
          /\ "samtools sort" \notin futures[i].failed

\* a task starts a step only when none of its steps has exited non-zero or
\* could not be spawned, and the files its steps have produced stay
C17_Step ==
    \A i \in 1..Len(futures) :
       /\ stage \in {"bowtie", "hisat2"} /\ futures'[i].ran # futures[i].ran =>
             /\ futures'[i].failed = {}
             /\ futures[i].nospawn = ""
       /\ \A p \in output_paths(stage, futures[i].key) : p \in files => p \in files'

\* C17: in the two alignment pipelines index is invoked only after sort has
\* exited with status zero, no step is invoked after a step of the task has
\* failed, and the files the earlier steps produced are left in place.
C17_FailureAbortsRemainingSteps == [](C17_State) /\ [][C17_Step]_vars

\* the aligner of the script
Aligner == IF stage = "bowtie" THEN "bowtie" ELSE "hisat2"

\* the aligner, sort and index of task f were all started and have all
\* exited with status zero
AllStepsExitedZero(f) ==
    /\ Range(f.ran) = {Aligner, "samtools sort", "samtools index"}
    /\ f.alive = {}
    /\ f.failed = {}
    /\ f.nospawn = ""

\* C18: in an alignment task an input file is gone only if the aligner, sort
\* and index have all exited with status zero; when the task has returned
\* after a step exited non-zero or could not be spawned, every input file
\* still exists.
C18_InputsDeletedOnlyAfterSuccess ==
    stage \in {"bowtie", "hisat2"} =>
       \A i \in 1..Len(futures) :
          /\ Range(futures[i].files) \ files # {} => AllStepsExitedZero(futures[i])
          /\ /\ futures[i].st = "FINISHED"
             /\ futures[i].failed # {} \/ futures[i].nospawn # ""
             => Range(futures[i].files) \subseteq files

\* C19: when a task of massive_hisat2 has produced its outcome, no process it
\* started is still running: the aligner and sort have both exited and been
\* waited for.
C19_NoProcessLeftAtReturn ==
    stage = "hisat2" =>
       \A i \in 1..Len(futures) :
          futures[i].st = "FINISHED" => futures[i].alive = {}

\* the outcomes of a task that completed
CompletedMsgs ==
    {"Processed paired-end FASTQ files in", "Processed single-end FASTQ file in",
     "Processed successfully", "Alignment completed for"}

\* C20: a task all of whose tool steps succeeded and whose removal of an
\* input file failed ends with its completed outcome, not with an error
\* outcome, in the trim, unpack and alignment tasks alike.
C20_CleanupFailureKeepsCompleted ==
    \A i \in 1..Len(futures) :
       /\ stage \in {"fastp", "fasterqdump", "bowtie", "hisat2"}
       /\ futures[i].st = "FINISHED"
       /\ futures[i].undeleted # {}
       => /\ futures[i].exc = NoExc
          /\ futures[i].result.msg \in CompletedMsgs
          /\ futures[i].result.msg \notin FilesystemFailedMsgs

\* the external processes that are alive: <<task, step>>
AliveProcesses ==
    UNION {{<<i, tool>> : tool \in futures[i].alive} : i \in 1..Len(futures)}

RECURSIVE SumOfArgs(_, _)
\* the sum of the thread-count arguments of the processes in P
SumOfArgs(P, threads) ==
    IF P = {} THEN 0
    ELSE LET p == CHOOSE q \in P : TRUE
         IN thread_arg(p[2], threads) + SumOfArgs(P \ {p}, threads)

\* C21: for every per-task thread count, in every reachable state the
\* thread-count arguments of the external processes alive at the same time
\* add up to at most max_workers times the thread count, in every script.
C21_ThreadsWithinCapacityTimesCount ==
    \A threads \in thread_counts(stage) :
       SumOfArgs(AliveProcesses, threads) <= max_workers * threads

\* task i returns its 'No valid FASTQ files found' outcome in this step
ReturnsSkipped(i) ==
    /\ futures[i].st # "FINISHED"
    /\ futures'[i].st = "FINISHED"
    /\ futures'[i].result.msg \in SkippedMsgs

\* C22: the step in which a trim or alignment task on a group of neither one
\* nor two files returns has started no external process and has created,
\* truncated and deleted no file: the files that exist and what the logs
\* hold are as they were before the task ran.
C22_InvalidGroupHasNoSideEffect ==
    [][\A i \in 1..Len(futures) :
          stage \in DirStages /\ ReturnsSkipped(i) =>
             /\ Len(futures[i].files) \notin {1, 2}
             /\ futures'[i].ran = <<>>
             /\ futures'[i].alive = {}
             /\ files' = files
             /\ log' = log]_vars

====
